---------------------------- MODULE Spec2Model ----------------------------
(***************************************************************************)
(* A model of src/src/lib.rs: the growable array Vec<T> (ptr, cap, len),   *)
(* its growth policy, push/pop/insert/remove, its destructor, and the      *)
(* consuming double-ended iterator IntoIter<T> (vec, raw.start, raw.end).  *)
(*                                                                         *)
(* The backing allocation is a sequence of slots; a slot holds the bits of *)
(* an element (its identity, 1..MaxElems) or Uninit.  ptr::read leaves the *)
(* bits in place, so a slot whose element was moved out still holds a      *)
(* stale bitwise copy of it.  Pointers are slot offsets from the start of  *)
(* the allocation.  The code never inspects an element, so elements are    *)
(* distinct tokens handed out in order of creation.                        *)
(***************************************************************************)
EXTENDS Integers, Sequences, FiniteSets, TLC

\* Number of elements the caller ever creates.
MaxElems == 5
\* Width of usize/isize in bits.
WordBits == 4
\* mem::size_of::<T>(), at least 1 (Vec::new rejects zero-sized types).
ElemSize == 1

RECURSIVE Pow2(_)
Pow2(n) == IF n = 0 THEN 1 ELSE 2 * Pow2(n - 1)

Word == Pow2(WordBits)
ISIZE_MAX == Pow2(WordBits - 1) - 1

\* usize multiplication (wrapping, as in a release build).
Mul(a, b) == (a * b) % Word

Ids == 1 .. MaxElems
Uninit == 0
None == 0
\* Indices a caller may pass to insert/remove.
Indices == 0 .. (MaxElems + 1)

VARIABLES
    ptr,      \* Vec.ptr: "dangling" (Unique::empty), "heap" or "null"
    cap,      \* Vec.cap
    len,      \* Vec.len
    mem,      \* the slots of the live allocation (<<>> when there is none)
    heapBytes,\* size in bytes of the live allocation, 0 when there is none
    frees,    \* number of dealloc calls made
    start,    \* IntoIter.raw.start, as a slot offset
    end,      \* IntoIter.raw.end, as a slot offset
    owner,    \* "vec": the array is a Vec; "iter": it was moved into an IntoIter
    pc,       \* "live", "drop_loop", "dealloc", "dropped", "aborted", "undefined"
    err,      \* "none" or the message of the panic that ended the last call
    nextId,   \* number of elements created so far
    moved,    \* moved[e]: times e was moved out to the caller
    dropped,  \* dropped[e]: times e's destructor was run
    \* history variables (read by the properties only)
    lastOp,   \* the last call: its name, arguments, result and the len/cap before it
    before,   \* the array's values before the last call of a Vec method
    ir,       \* set by a remove that directly follows a successful insert
    phase,    \* "push": only pushes since new; "pop": pushes then pops; "mixed"
    pushlog,  \* the elements pushed in phase "push"
    poplog,   \* the elements popped in phase "pop"
    orig,     \* the array's values when into_iter was called
    yielded,  \* the iterator's successful calls: <<method, element>>
    nNone,    \* iterator calls that yielded None (saturating at 2)
    grows,    \* grow() calls that ran to their end (that set self.cap)
    atDrop,   \* the elements the destructor is responsible for, set when it starts
    allocFailed, \* whether alloc/realloc has returned null
    rawOffsets, \* pointer offsets RawValIter::new computed to make raw.end
    abs       \* the sequence the calls made so far should have produced

core == <<ptr, cap, len, mem, heapBytes, frees, start, end, owner, pc, err,
          nextId, moved, dropped>>
hist == <<lastOp, before, ir, phase, pushlog, poplog, orig, yielded, nNone,
          grows, atDrop, allocFailed, rawOffsets, abs>>
vars == <<core, hist>>

-----------------------------------------------------------------------------
\* Raw memory operations on the slots.

\* ptr::write(ptr.offset(off), e)
Write(m, off, e) == [m EXCEPT ![off + 1] = e]

\* ptr::read(ptr.offset(off)): a bitwise copy, the slot keeps its bits
Read(m, off) == m[off + 1]

\* ptr::copy(ptr.offset(src), ptr.offset(dst), n): memmove of n slots
Copy(m, src, dst, n) ==
    [i \in 1 .. Len(m) |->
        IF dst + 1 <= i /\ i <= dst + n THEN m[i - dst + src] ELSE m[i]]

\* (mutant of Realloc: a fresh block, the old contents are not carried over)
ReallocFresh(m, bytes) == [i \in 1 .. (bytes \div ElemSize) |-> Uninit]

\* realloc to `bytes` bytes: the old contents are kept, the rest is uninitialized
Realloc(m, bytes) ==
    [i \in 1 .. (bytes \div ElemSize) |-> IF i <= Len(m) THEN m[i] ELSE Uninit]

\* The slice &self[..]: slots [0, len)
Contents == SubSeq(mem, 1, len)

\* The operations on the sequence of values the array stands for.
AbsInsert(q, index, e) ==
    SubSeq(q, 1, index) \o <<e>> \o SubSeq(q, index + 1, Len(q))
AbsRemove(q, index) ==
    SubSeq(q, 1, index) \o SubSeq(q, index + 2, Len(q))
AbsPop(q) == IF q = <<>> THEN q ELSE SubSeq(q, 1, Len(q) - 1)

NoIr == [valid |-> FALSE, idx |-> 0, elem |-> 0, before |-> <<>>]

Call(name, index, e, r, g, okay) ==
    [op |-> name, idx |-> index, elem |-> e, ret |-> r,
     len0 |-> len, cap0 |-> cap, grew |-> g, ok |-> okay]

-----------------------------------------------------------------------------
\* Vec::new
Init ==
    /\ ptr = "dangling"
    /\ cap = 0
    /\ len = 0
    /\ mem = <<>>
    /\ heapBytes = 0
    /\ frees = 0
    /\ start = 0
    /\ end = 0
    /\ owner = "vec"
    /\ pc = "live"
    /\ err = "none"
    /\ nextId = 0
    /\ moved = [e \in Ids |-> 0]
    /\ dropped = [e \in Ids |-> 0]
    /\ lastOp = [op |-> "new", idx |-> 0, elem |-> 0, ret |-> None,
                 len0 |-> 0, cap0 |-> 0, grew |-> FALSE, ok |-> TRUE]
    /\ before = <<>>
    /\ ir = NoIr
    /\ phase = "push"
    /\ pushlog = <<>>
    /\ poplog = <<>>
    /\ orig = <<>>
    /\ yielded = <<>>
    /\ nNone = 0
    /\ grows = 0
    /\ atDrop = <<>>
    /\ allocFailed = FALSE
    /\ rawOffsets = 0
    /\ abs = <<>>


-----------------------------------------------------------------------------
\* Vec::grow, split into the values it computes.

\* (mutants of NewCap: growing by one slot; forgetting to double)
NewCapPlusOne(c) == c + 1
NewCapSame(c) == IF c = 0 THEN 1 ELSE c

\* new_cap: 1 for the first allocation, otherwise self.cap * 2
NewCap(c) == IF c = 0 THEN 1 ELSE Mul(c, 2)

\* old_num_bytes = self.cap * elem_size
OldNumBytes(c) == Mul(c, ElemSize)

\* (mutants of GrowOk: no assertion; comparing with isize::MAX itself)
GrowOkAlways(c) == TRUE
GrowOkLoose(c) == c = 0 \/ OldNumBytes(c) <= ISIZE_MAX

\* the "capacity overflow" assertion (not evaluated for the first allocation)
GrowOk(c) == c = 0 \/ OldNumBytes(c) <= ISIZE_MAX \div 2

\* size of the allocation after grow: Layout::new::<T>() or old_num_bytes * 2
NewNumBytes(c) == IF c = 0 THEN ElemSize ELSE Mul(OldNumBytes(c), 2)

\* the slots after alloc/realloc
GrowMem(m, c) == IF c = 0 THEN Realloc(<<>>, NewNumBytes(c)) ELSE Realloc(m, NewNumBytes(c))

\* push and insert call grow() when this holds
NeedGrow(l, c) == l = c

\* (mutant of InsertInBounds: off by one, index = len refused)
InsertInBoundsStrict(index, l) == index < l

\* the bounds assertions of insert and remove
InsertInBounds(index, l) == index <= l
RemoveInBounds(index, l) == index < l

\* (mutant of Panic: the assertion is made after the length was lowered)
PanicLate(name, index, e, msg) ==
    /\ err' = msg
    /\ lastOp' = Call(name, index, e, None, FALSE, FALSE)
    /\ nextId' = IF e = 0 THEN nextId ELSE e
    /\ dropped' = IF e = 0 THEN dropped ELSE [dropped EXCEPT ![e] = @ + 1]
    /\ before' = Contents
    /\ ir' = NoIr
    /\ len' = IF len > 0 THEN len - 1 ELSE len
    /\ UNCHANGED <<ptr, cap, mem, heapBytes, frees, start, end, owner, pc, moved>>
    /\ UNCHANGED <<phase, pushlog, poplog, orig, yielded, nNone, grows, atDrop, allocFailed, rawOffsets, abs>>

\* An action that panics: the call is abandoned with message `msg`; unwinding
\* drops the argument `e` (if any) that the callee owned.
Panic(name, index, e, msg) ==
    /\ err' = msg
    /\ lastOp' = Call(name, index, e, None, FALSE, FALSE)
    /\ nextId' = IF e = 0 THEN nextId ELSE e
    /\ dropped' = IF e = 0 THEN dropped ELSE [dropped EXCEPT ![e] = @ + 1]
    /\ before' = Contents
    /\ ir' = NoIr
    /\ UNCHANGED <<ptr, cap, len, mem, heapBytes, frees, start, end, owner, pc, moved>>
    /\ UNCHANGED <<phase, pushlog, poplog, orig, yielded, nNone, grows, atDrop, allocFailed, rawOffsets, abs>>

Usable == pc = "live" /\ err = "none"

\* Vec::push
Push ==
    /\ Usable /\ owner = "vec"
    /\ nextId < MaxElems
    /\ LET e == nextId + 1
           g == NeedGrow(len, cap)
       IN  IF g /\ ~GrowOk(cap)
           THEN Panic("push", 0, e, "capacity overflow")
           ELSE /\ ptr' = IF g THEN "heap" ELSE ptr
                /\ cap' = IF g THEN NewCap(cap) ELSE cap
                /\ heapBytes' = IF g THEN NewNumBytes(cap) ELSE heapBytes
                /\ mem' = Write(IF g THEN GrowMem(mem, cap) ELSE mem, len, e)
                /\ len' = len + 1
                /\ nextId' = e
                /\ grows' = IF g THEN grows + 1 ELSE grows
                /\ lastOp' = Call("push", 0, e, None, g, TRUE)
                /\ abs' = Append(abs, e)
                /\ before' = Contents
                /\ ir' = NoIr
                /\ phase' = IF phase = "push" THEN "push" ELSE "mixed"
                /\ pushlog' = IF phase = "push" THEN Append(pushlog, e) ELSE <<>>
                /\ poplog' = <<>>
                /\ UNCHANGED <<frees, start, end, owner, pc, err, moved, dropped>>
                /\ UNCHANGED <<orig, yielded, nNone, atDrop, allocFailed, rawOffsets>>

\* (mutant of PopSlot: reading the first slot)
PopSlotFront(l) == 0

\* the slot Vec::pop reads, given the length before the call
PopSlot(l) == l - 1

\* Vec::pop
Pop ==
    /\ Usable /\ owner = "vec"
    /\ IF len = 0
       THEN /\ lastOp' = Call("pop", 0, 0, None, FALSE, TRUE)
            /\ UNCHANGED <<len, moved, poplog>>
       ELSE LET r == Read(mem, PopSlot(len))
            IN  /\ len' = len - 1
                /\ moved' = [moved EXCEPT ![r] = @ + 1]
                /\ lastOp' = Call("pop", 0, 0, r, FALSE, TRUE)
                /\ poplog' = IF phase = "mixed" THEN <<>> ELSE Append(poplog, r)
    /\ phase' = IF phase = "mixed" THEN "mixed" ELSE "pop"
    /\ abs' = AbsPop(abs)
    /\ before' = Contents
    /\ ir' = NoIr
    /\ UNCHANGED <<ptr, cap, mem, heapBytes, frees, start, end, owner, pc, err,
                   nextId, dropped>>
    /\ UNCHANGED <<pushlog, orig, yielded, nNone, grows, atDrop, allocFailed, rawOffsets>>

\* (mutants of InsertShift: no block move; a block move one slot short)
InsertNoShift(m, index, l) == m
InsertShiftShort(m, index, l) ==
    IF index < l THEN Copy(m, index, index + 1, l - index - 1) ELSE m

\* the block move of insert: slots [index, len) go one slot up
InsertShift(m, index, l) ==
    IF index < l THEN Copy(m, index, index + 1, l - index) ELSE m

\* Vec::insert
Insert(index) ==
    /\ Usable /\ owner = "vec"
    /\ nextId < MaxElems
    /\ LET e == nextId + 1
           g == NeedGrow(len, cap)
       IN  IF ~InsertInBounds(index, len)
           THEN Panic("insert", index, e, "index out of bounds")
           ELSE IF g /\ ~GrowOk(cap)
           THEN Panic("insert", index, e, "capacity overflow")
           ELSE /\ ptr' = IF g THEN "heap" ELSE ptr
                /\ cap' = IF g THEN NewCap(cap) ELSE cap
                /\ heapBytes' = IF g THEN NewNumBytes(cap) ELSE heapBytes
                /\ mem' = Write(InsertShift(IF g THEN GrowMem(mem, cap) ELSE mem,
                                            index, len),
                                index, e)
                /\ len' = len + 1
                /\ nextId' = e
                /\ grows' = IF g THEN grows + 1 ELSE grows
                /\ lastOp' = Call("insert", index, e, None, g, TRUE)
                /\ abs' = AbsInsert(abs, index, e)
                /\ before' = Contents
                /\ ir' = NoIr
                /\ phase' = "mixed"
                /\ pushlog' = <<>>
                /\ poplog' = <<>>
                /\ UNCHANGED <<frees, start, end, owner, pc, err, moved, dropped>>
                /\ UNCHANGED <<orig, yielded, nNone, atDrop, allocFailed, rawOffsets>>

\* (mutant of RemoveShift: a block move one slot short)
RemoveShiftShort(m, index, l) == Copy(m, index + 1, index, l - index - 1)

\* the block move of remove, given the length after the decrement:
\* slots [index + 1, index + 1 + (l - index)) go one slot down
RemoveShift(m, index, l) == Copy(m, index + 1, index, l - index)

\* Vec::remove
Remove(index) ==
    /\ Usable /\ owner = "vec"
    /\ IF ~RemoveInBounds(index, len)
       THEN Panic("remove", index, 0, "index out of bounds")
       ELSE LET r == Read(mem, index)
            IN  /\ len' = len - 1
                /\ mem' = RemoveShift(mem, index, len - 1)
                /\ moved' = [moved EXCEPT ![r] = @ + 1]
                /\ lastOp' = Call("remove", index, 0, r, FALSE, TRUE)
                /\ abs' = AbsRemove(abs, index)
                /\ before' = Contents
                /\ ir' = IF lastOp.op = "insert" /\ lastOp.ok
                         THEN [valid |-> TRUE, idx |-> lastOp.idx,
                               elem |-> lastOp.elem, before |-> before]
                         ELSE NoIr
                /\ phase' = "mixed"
                /\ pushlog' = <<>>
                /\ poplog' = <<>>
                /\ UNCHANGED <<ptr, cap, heapBytes, frees, start, end, owner, pc,
                               err, nextId, dropped>>
                /\ UNCHANGED <<orig, yielded, nNone, grows, atDrop, allocFailed, rawOffsets>>

-----------------------------------------------------------------------------
\* RawValIter::new(&self): start = slice.as_ptr(), end = start (+ len unless len = 0)
RawEnd(l) == IF l = 0 THEN 0 ELSE 0 + l
\* the number of calls of offset() RawValIter::new makes
RawOffsets(l) == IF l = 0 THEN 0 ELSE 1

\* Vec::into_iter: the array is moved into the IntoIter unchanged
IntoIter ==
    /\ Usable /\ owner = "vec"
    /\ owner' = "iter"
    /\ start' = 0
    /\ end' = RawEnd(len)
    /\ rawOffsets' = RawOffsets(len)
    /\ orig' = Contents
    /\ lastOp' = Call("into_iter", 0, 0, None, FALSE, TRUE)
    /\ before' = Contents
    /\ ir' = NoIr
    /\ phase' = "mixed"
    /\ pushlog' = <<>>
    /\ poplog' = <<>>
    /\ UNCHANGED <<ptr, cap, len, mem, heapBytes, frees, pc, err, nextId, moved,
                   dropped>>
    /\ UNCHANGED <<yielded, nNone, grows, atDrop, allocFailed, abs>>

IterNone(name) ==
    /\ lastOp' = Call(name, 0, 0, None, FALSE, TRUE)
    /\ nNone' = IF nNone < 2 THEN nNone + 1 ELSE nNone
    /\ UNCHANGED <<start, end, moved, yielded>>

\* (mutant of NextSlot: reading at raw.start)
NextSlotLow(s, e) == s

\* (mutant of NextCursors: both cursors move)
NextCursorsBoth(s, e) == <<s + 1, e - 1>>

\* the cursors after a successful next(): raw.end = raw.end.offset(-1)
NextCursors(s, e) == <<s, e - 1>>
\* the slot a successful next() reads: the new raw.end
NextSlot(s, e) == e - 1

\* IntoIter::next
IterNext ==
    /\ Usable /\ owner = "iter"
    /\ IF start = end
       THEN IterNone("next")
       ELSE LET r == Read(mem, NextSlot(start, end))
            IN  /\ start' = NextCursors(start, end)[1]
                /\ end' = NextCursors(start, end)[2]
                /\ moved' = [moved EXCEPT ![r] = @ + 1]
                /\ yielded' = Append(yielded, <<"next", r>>)
                /\ lastOp' = Call("next", 0, 0, r, FALSE, TRUE)
                /\ UNCHANGED nNone
    /\ UNCHANGED <<ptr, cap, len, mem, heapBytes, frees, owner, pc, err, nextId,
                   dropped>>
    /\ UNCHANGED <<before, ir, phase, pushlog, poplog, orig, grows, atDrop, allocFailed, rawOffsets, abs>>

\* (mutant of NextBackSlot: reading below raw.end)
NextBackSlotHigh(s, e) == e - 1

\* the cursors after a successful next_back(): raw.start = raw.start.offset(1)
NextBackCursors(s, e) == <<s + 1, e>>
\* the slot a successful next_back() reads: the new raw.start.offset(-1)
NextBackSlot(s, e) == (s + 1) - 1

\* IntoIter::next_back
IterNextBack ==
    /\ Usable /\ owner = "iter"
    /\ IF start = end
       THEN IterNone("next_back")
       ELSE LET r == Read(mem, NextBackSlot(start, end))
            IN  /\ start' = NextBackCursors(start, end)[1]
                /\ end' = NextBackCursors(start, end)[2]
                /\ moved' = [moved EXCEPT ![r] = @ + 1]
                /\ yielded' = Append(yielded, <<"next_back", r>>)
                /\ lastOp' = Call("next_back", 0, 0, r, FALSE, TRUE)
                /\ UNCHANGED nNone
    /\ UNCHANGED <<ptr, cap, len, mem, heapBytes, frees, owner, pc, err, nextId,
                   dropped>>
    /\ UNCHANGED <<before, ir, phase, pushlog, poplog, orig, grows, atDrop, allocFailed, rawOffsets, abs>>

-----------------------------------------------------------------------------
\* Destruction.  A Vec is destroyed by Drop for Vec.  IntoIter has no Drop of
\* its own: destroying it destroys its fields, so Drop for Vec runs on .vec
\* (with the len the array had at into_iter) and .raw needs nothing.

\* (mutant of DropHasWork: no test of cap)
DropAlways(c) == TRUE

\* whether Drop for Vec does anything at all
DropHasWork(c) == c # 0

\* the elements the destruction is to destroy: a Vec's live elements, an
\* IntoIter's elements still within [start, end)
Responsible == IF owner = "vec" THEN Contents ELSE SubSeq(mem, start + 1, end)

\* The owner goes out of scope (or a panic unwinds through it).
DropBegin ==
    /\ pc = "live"
    /\ pc' = IF DropHasWork(cap) THEN "drop_loop" ELSE "dropped"
    /\ atDrop' = Responsible
    /\ UNCHANGED <<ptr, cap, len, mem, heapBytes, frees, start, end, owner, err,
                   nextId, moved, dropped>>
    /\ UNCHANGED <<lastOp, before, ir, phase, pushlog, poplog, orig, yielded,
                   nNone, grows, allocFailed, rawOffsets, abs>>

\* whether an element was already moved out or destroyed
Disposed(e) == moved[e] + dropped[e] > 0

\* One turn of `while let Some(_) = self.pop() {}`: pop, and drop what it
\* returned.  Running the destructor of an element that was already moved out
\* is undefined behaviour: the destructor runs a second time on the stale
\* bits, or the process dies in it (a double free caught by the allocator).
DropLoop ==
    /\ pc = "drop_loop"
    /\ IF len = 0
       THEN /\ pc' = "dealloc"
            /\ UNCHANGED <<len, dropped>>
       ELSE LET r == Read(mem, PopSlot(len))
            IN  /\ len' = len - 1
                /\ \/ /\ dropped' = [dropped EXCEPT ![r] = @ + 1]
                      /\ pc' = "drop_loop"
                   \/ /\ Disposed(r)
                      /\ dropped' = dropped
                      /\ pc' = "aborted"
    /\ UNCHANGED <<ptr, cap, mem, heapBytes, frees, start, end, owner, err,
                   nextId, moved>>
    /\ UNCHANGED hist

\* num_bytes = elem_size * self.cap, the size handed to dealloc
DeallocBytes(c) == Mul(ElemSize, c)

\* dealloc(self.ptr, Layout(num_bytes, align))
DropDealloc ==
    /\ pc = "dealloc"
    /\ frees' = frees + 1
    /\ heapBytes' = heapBytes - DeallocBytes(cap)
    /\ mem' = <<>>
    /\ pc' = "dropped"
    /\ UNCHANGED <<ptr, cap, len, start, end, owner, err, nextId, moved, dropped>>
    /\ UNCHANGED hist

-----------------------------------------------------------------------------
Next ==
    \/ Push
    \/ Pop
    \/ \E index \in Indices : Insert(index)
    \/ \E index \in Indices : Remove(index)
    \/ IntoIter
    \/ IterNext
    \/ IterNextBack
    \/ DropBegin
    \/ DropLoop
    \/ DropDealloc

Spec == Init /\ [][Next]_vars

\* The destructor, once started, runs to its end.
FairSpec == Spec /\ WF_vars(DropLoop) /\ WF_vars(DropDealloc)

TypeOK ==
    /\ ptr \in {"dangling", "heap", "null"}
    /\ cap \in 0 .. (Word - 1)
    /\ len \in 0 .. (Word - 1)
    /\ owner \in {"vec", "iter"}
    /\ pc \in {"live", "drop_loop", "dealloc", "dropped", "aborted", "undefined"}
    /\ err \in {"none", "capacity overflow", "index out of bounds"}
    /\ nextId \in 0 .. MaxElems
    /\ \A i \in 1 .. Len(mem) : mem[i] \in Ids \cup {Uninit}

-----------------------------------------------------------------------------
\* The allocator refusing a request.  grow() never tests what alloc/realloc
\* returned: it stores the null pointer in self.ptr and the new capacity in
\* self.cap (a failed realloc leaves the old block allocated, now unreachable).
\* The caller then writes the element through the null pointer, which is
\* undefined behaviour: the store traps and the process dies, or it does not
\* trap and the call goes on to count the element.  Nothing is modelled after
\* either outcome.
GrowFails(name, index, e, trapped) ==
    /\ ptr' = "null"
    /\ cap' = NewCap(cap)
    /\ len' = IF trapped THEN len ELSE len + 1
    /\ pc' = IF trapped THEN "aborted" ELSE "undefined"
    /\ nextId' = e
    /\ allocFailed' = TRUE
    /\ lastOp' = Call(name, index, e, None, TRUE, ~trapped)
    /\ grows' = grows + 1
    /\ before' = Contents
    /\ ir' = NoIr
    /\ UNCHANGED <<mem, heapBytes, frees, start, end, owner, err, moved, dropped>>
    /\ UNCHANGED <<phase, pushlog, poplog, orig, yielded, nNone, atDrop, rawOffsets, abs>>

\* Vec::push when the allocator refuses grow()'s request
PushAllocFails ==
    /\ Usable /\ owner = "vec"
    /\ nextId < MaxElems
    /\ NeedGrow(len, cap) /\ GrowOk(cap)
    /\ \E trapped \in BOOLEAN : GrowFails("push", 0, nextId + 1, trapped)

\* Vec::insert when the allocator refuses grow()'s request
InsertAllocFails(index) ==
    /\ Usable /\ owner = "vec"
    /\ nextId < MaxElems
    /\ InsertInBounds(index, len)
    /\ NeedGrow(len, cap) /\ GrowOk(cap)
    /\ \E trapped \in BOOLEAN : GrowFails("insert", index, nextId + 1, trapped)

NextOom ==
    \/ Next
    \/ PushAllocFails
    \/ \E index \in Indices : InsertAllocFails(index)

\* The array with an allocator that may refuse any request.
OomSpec == Init /\ [][NextOom]_vars

-----------------------------------------------------------------------------
\* The slice view (Deref / DerefMut).

\* (mutant of ViewLen: a view of the whole allocation)
ViewLenCap(l, c) == c

\* the length handed to slice::from_raw_parts(ptr, len)
ViewLen(l, c) == l

\* &self[..] / &mut self[..]
View == [i \in 1 .. ViewLen(len, cap) |-> Read(mem, i - 1)]

\* Reading view[index].  An index outside the view is refused by the slice
\* itself and never reaches the array.
ViewRead(index) ==
    /\ Usable /\ owner = "vec"
    /\ index < Len(View)
    /\ lastOp' = Call("view_read", index, 0, View[index + 1], FALSE, TRUE)
    /\ before' = Contents
    /\ ir' = NoIr
    /\ UNCHANGED core
    /\ UNCHANGED <<phase, pushlog, poplog, orig, yielded, nNone, grows, atDrop,
                   allocFailed, rawOffsets, abs>>

\* view[index] = e: the assignment destroys the value in the slot and stores e.
ViewWrite(index) ==
    /\ Usable /\ owner = "vec"
    /\ nextId < MaxElems
    /\ index < Len(View)
    /\ LET e == nextId + 1
           old == View[index + 1]
       IN  /\ mem' = Write(mem, index, e)
           /\ dropped' = [dropped EXCEPT ![old] = @ + 1]
           /\ nextId' = e
           /\ lastOp' = Call("view_write", index, e, None, FALSE, TRUE)
           /\ abs' = [abs EXCEPT ![index + 1] = e]
    /\ before' = Contents
    /\ ir' = NoIr
    /\ phase' = "mixed"
    /\ pushlog' = <<>>
    /\ poplog' = <<>>
    /\ UNCHANGED <<ptr, cap, len, heapBytes, frees, start, end, owner, pc, err, moved>>
    /\ UNCHANGED <<orig, yielded, nNone, grows, atDrop, allocFailed, rawOffsets>>

NextView ==
    \/ Next
    \/ \E index \in Indices : ViewRead(index)
    \/ \E index \in Indices : ViewWrite(index)

\* The array used through its methods and through its slice view.
ViewSpec == Init /\ [][NextView]_vars

-----------------------------------------------------------------------------
\* Properties.

Range(q) == {q[i] : i \in 1 .. Len(q)}
Distinct(q) == \A i, j \in 1 .. Len(q) : i # j => q[i] # q[j]
Reverse(q) == [i \in 1 .. Len(q) |-> q[Len(q) + 1 - i]]

\* C1: after pushing v1..vn onto a new array (growing as needed), the k-th
\* successive pop returns v(n-k+1), so n pops return vn, ..., v1; a pop made
\* when all n were popped returns None and leaves len at 0.
C1_PushPopLifo ==
    (pc = "live" /\ phase \in {"push", "pop"}) =>
        /\ len = Len(pushlog) - Len(poplog)
        /\ Contents = SubSeq(pushlog, 1, len)
        /\ poplog = SubSeq(Reverse(pushlog), 1, Len(poplog))
        /\ (lastOp.op = "pop" /\ lastOp.len0 = 0) =>
               (lastOp.ret = None /\ len = 0)

C1_Witness ==
    /\ phase = "pop"
    /\ pushlog = <<1, 2, 3>>
    /\ poplog = <<3, 2, 1>>
    /\ grows = 3
    /\ lastOp.op = "pop" /\ lastOp.len0 = 0 /\ lastOp.ret = None

\* the elements the iterator has yielded, in order
YieldedElems == [i \in 1 .. Len(yielded) |-> yielded[i][2]]
IterCall == lastOp.op \in {"next", "next_back"}

\* C2: whatever the interleaving of next() and next_back(), the iterator
\* yields elements of the original array only, none of them twice; its first
\* None comes when exactly the n original elements have been yielded (the
\* cursors have met); and once a call has yielded None every later call does.
C2_IterExactlyOnce ==
    owner = "iter" =>
        /\ Distinct(YieldedElems)
        /\ Range(YieldedElems) \subseteq Range(orig)
        /\ Len(yielded) <= Len(orig)
        /\ (start = end \/ nNone > 0) =>
               /\ Len(yielded) = Len(orig)
               /\ Range(YieldedElems) = Range(orig)
        /\ (nNone > 0 /\ IterCall) => lastOp.ret = None
        /\ (IterCall /\ lastOp.ret = None) => nNone > 0

C2_Witness ==
    /\ owner = "iter" /\ pc = "live"
    /\ Len(orig) = 3
    /\ nNone = 2
    /\ \E i, j \in 1 .. Len(yielded) :
           yielded[i][1] = "next" /\ yielded[j][1] = "next_back"

\* C3: every element ever created is disposed of at most once (moved out to
\* the caller or destroyed by the container, never both, never twice), and
\* exactly once when the array or the iterator has been destroyed.
C3_DisposedExactlyOnce ==
    /\ \A e \in 1 .. nextId : moved[e] + dropped[e] <= 1
    /\ pc \in {"dropped", "aborted"} =>
           \A e \in 1 .. nextId : moved[e] + dropped[e] = 1

\* C4: insert(i, x) directly followed by remove(i) returns x and leaves the
\* array's values (and so its length) as they were before the insert.
C4_InsertRemoveRoundTrip ==
    (pc = "live" /\ ir.valid /\ lastOp.op = "remove" /\ lastOp.idx = ir.idx) =>
        /\ lastOp.ok
        /\ lastOp.ret = ir.elem
        /\ Contents = ir.before
        /\ len = Len(ir.before)

C4_Witness ==
    /\ pc = "live" /\ ir.valid /\ lastOp.op = "remove" /\ lastOp.idx = ir.idx /\ lastOp.ok
    /\ Len(ir.before) = 3
    /\ ir.idx = 1

\* number of calls to `name` among the first k successful iterator calls
CountOp(k, name) == Cardinality({i \in 1 .. k : yielded[i][1] = name})

\* C5: the k-th successful call, if a next(), returns the element at the
\* highest position still in the range and moves end down by one; if a
\* next_back(), the element at the lowest position and moves start up by one.
\* So for the array 1, 2, 3 the calls next, next_back, next, next yield
\* 3, 1, 2, None.
C5_NextTakesHighEnd ==
    owner = "iter" =>
        /\ start = CountOp(Len(yielded), "next_back")
        /\ end = Len(orig) - CountOp(Len(yielded), "next")
        /\ \A k \in 1 .. Len(yielded) :
               yielded[k][2] =
                   IF yielded[k][1] = "next"
                   THEN orig[Len(orig) - CountOp(k - 1, "next")]
                   ELSE orig[CountOp(k - 1, "next_back") + 1]
        /\ (/\ orig = <<1, 2, 3>>
            /\ Len(yielded) = 3
            /\ yielded[1][1] = "next"
            /\ yielded[2][1] = "next_back"
            /\ yielded[3][1] = "next") =>
               /\ YieldedElems = <<3, 1, 2>>
               /\ (IterCall /\ nNone > 0) => lastOp.ret = None

C5_Witness ==
    /\ orig = <<1, 2, 3>>
    /\ yielded = << <<"next", 3>>, <<"next_back", 1>>, <<"next", 2>> >>
    /\ lastOp.op = "next" /\ lastOp.ret = None /\ nNone = 1

\* C6: insert with index > len and remove with index >= len end in the
\* "index out of bounds" panic; insert with index = len does not.
C6_BoundsRejected ==
    /\ (lastOp.op = "insert" /\ lastOp.idx > lastOp.len0) =>
           (err = "index out of bounds" /\ ~lastOp.ok)
    /\ (lastOp.op = "remove" /\ lastOp.idx >= lastOp.len0) =>
           (err = "index out of bounds" /\ ~lastOp.ok)
    /\ (lastOp.op \in {"insert", "remove"} /\ lastOp.idx < lastOp.len0) =>
           err # "index out of bounds"
    /\ (lastOp.op = "insert" /\ lastOp.idx = lastOp.len0) =>
           err # "index out of bounds"

C6_Witness ==
    /\ lastOp.op = "remove" /\ lastOp.len0 = 2 /\ lastOp.idx = 2
    /\ err = "index out of bounds"

C6_WitnessInsert ==
    /\ lastOp.op = "insert" /\ lastOp.len0 = 2 /\ lastOp.idx = 3
    /\ err = "index out of bounds"

\* C7: 0 <= len <= cap, and cap = 0 only when len = 0.
C7_LenWithinCap ==
    /\ 0 <= len
    /\ len <= cap
    /\ cap = 0 => len = 0

C7_Witness ==
    /\ owner = "vec" /\ pc = "live"
    /\ len = cap /\ cap = 4
    /\ lastOp.op = "insert"

\* what C8 says of each state: the capacity after k growths, when push and
\* insert grow, and that pop and remove leave the capacity alone
C8_State ==
    /\ cap = IF grows = 0 THEN 0 ELSE Pow2(grows - 1)
    /\ (lastOp.op \in {"push", "insert"} /\ lastOp.ok) =>
           /\ lastOp.grew <=> (lastOp.len0 = lastOp.cap0)
           /\ cap = IF ~lastOp.grew THEN lastOp.cap0
                    ELSE IF lastOp.cap0 = 0 THEN 1 ELSE 2 * lastOp.cap0
    /\ (lastOp.op \in {"pop", "remove"} /\ pc = "live") => cap = lastOp.cap0

\* what C8 says of each step: the capacity never decreases, and changes only
\* in a growth, made by push or insert at len = cap, from 0 to 1 or to its double
C8_Step ==
    /\ cap' >= cap
    /\ cap' # cap <=> grows' = grows + 1
    /\ grows' \in {grows, grows + 1}
    /\ cap' # cap =>
           /\ lastOp'.op \in {"push", "insert"}
           /\ len = cap
           /\ cap' = IF cap = 0 THEN 1 ELSE 2 * cap

\* C8: capacity never decreases and changes only in grow(): 0 becomes 1, any
\* other capacity doubles, so after k >= 1 growths it is 2^(k-1); push and
\* insert grow exactly when len = cap; pop and remove never change capacity.
C8_CapacityDoubles == [](C8_State) /\ [][C8_Step]_vars

C8_Witness ==
    /\ grows = 3 /\ cap = 4
    /\ lastOp.op = "insert" /\ lastOp.grew /\ lastOp.cap0 = 2

\* the argument of a call that panicked, dropped by the unwinding
Unwound == IF lastOp.ok THEN {} ELSE {lastOp.elem} \ {0}

\* what C9 says of the states of a Vec's destruction
C9_State ==
    /\ frees <= 1
    /\ (owner = "vec" /\ pc \in {"dealloc", "dropped"}) =>
           /\ \A e \in Range(atDrop) : dropped[e] = 1 /\ moved[e] = 0
           /\ \A e \in Ids \ (Range(atDrop) \cup Unwound) : dropped[e] = 0
    /\ (owner = "vec" /\ pc = "dropped") =>
           /\ frees = IF cap # 0 THEN 1 ELSE 0
           /\ heapBytes = 0
    /\ (owner = "vec" /\ pc # "dropped") => frees = 0

\* C9: destroying a Vec with n live elements runs the destructor of each of
\* them exactly once (and of nothing else), then releases the allocation
\* exactly once if cap # 0 and not at all if cap = 0; the loop terminates.
C9_VecDrop ==
    /\ [](C9_State)
    /\ (owner = "vec" /\ pc = "drop_loop") ~> (pc = "dropped")

C9_Witness ==
    /\ owner = "vec" /\ pc = "dropped"
    /\ Len(atDrop) = 3
    /\ frees = 1

\* C10: when an IntoIter has been destroyed, each element that was still
\* within [start, end) has had its destructor run exactly once and the
\* allocation has been released exactly once if cap # 0.
C10_IterDrop ==
    (owner = "iter" /\ pc \in {"dropped", "aborted"}) =>
        /\ \A e \in Range(atDrop) : dropped[e] = 1
        /\ frees = IF cap # 0 THEN 1 ELSE 0

\* C11: when the allocator refuses grow()'s request the failure is fatal: the
\* push/insert is aborted, no element is written or counted, and the array
\* keeps the capacity and the pointer it had.
C11_AllocFailureFatal ==
    allocFailed =>
        /\ pc = "aborted"
        /\ ~lastOp.ok
        /\ len = lastOp.len0
        /\ cap = lastOp.cap0
        /\ ptr # "null"

\* a push, or an insert within bounds, that found the array full
FullGrowCall ==
    /\ lastOp.op \in {"push", "insert"}
    /\ lastOp.len0 = lastOp.cap0
    /\ lastOp.op = "insert" => lastOp.idx <= lastOp.len0

\* C12 as claimed: cap * size_of(T) never exceeds isize::MAX / 2, and a growth
\* that would break this panics with "capacity overflow".
C12_HalfIsizeMax ==
    /\ cap * ElemSize <= ISIZE_MAX \div 2
    /\ (FullGrowCall /\ 2 * lastOp.cap0 * ElemSize > ISIZE_MAX \div 2) =>
           err = "capacity overflow"

\* C12 as amended: cap * size_of(T) never exceeds isize::MAX; a growth is
\* refused with the "capacity overflow" panic, leaving the capacity as it was,
\* exactly when the byte size before it exceeds isize::MAX / 2.
C12_WithinIsizeMax ==
    /\ cap * ElemSize <= ISIZE_MAX
    /\ (FullGrowCall /\ lastOp.cap0 * ElemSize > ISIZE_MAX \div 2) =>
           (err = "capacity overflow" /\ cap = lastOp.cap0)
    /\ err = "capacity overflow" =>
           (FullGrowCall /\ lastOp.cap0 * ElemSize > ISIZE_MAX \div 2)

C12_Witness ==
    /\ err = "capacity overflow"
    /\ lastOp.op = "push"
    /\ cap * ElemSize > ISIZE_MAX \div 2

\* C13: the slice view projects exactly slots [0, len): it is as long as the
\* array (empty for a new array) and its i-th element is the i-th element of
\* the sequence the calls built; a read of view[i] returns that element; a
\* write to view[i] replaces element i and leaves len, cap and the other
\* elements as they were.
C13_ViewIsContents ==
    (pc = "live" /\ owner = "vec") =>
        /\ Len(View) = len
        /\ View = abs
        /\ lastOp.op = "new" => (cap = 0 /\ View = <<>>)
        /\ lastOp.op = "view_read" => lastOp.ret = abs[lastOp.idx + 1]
        /\ lastOp.op = "view_write" =>
               /\ View = [before EXCEPT ![lastOp.idx + 1] = lastOp.elem]
               /\ len = lastOp.len0
               /\ cap = lastOp.cap0

C13_Witness ==
    /\ pc = "live" /\ owner = "vec"
    /\ lastOp.op = "view_write" /\ lastOp.idx = 0
    /\ before = <<1, 2, 3>>
    /\ View = <<4, 2, 3>>

C13_WitnessRead ==
    /\ lastOp.op = "view_read" /\ lastOp.idx = 1 /\ lastOp.ret = 2
    /\ View = <<1, 2, 3>>

\* C14: until the destruction has released it, an allocation exists exactly
\* when cap # 0, and it is cap * size_of(T) bytes (cap slots) large, which is
\* the size grow() declares to realloc and Drop declares to dealloc; an array
\* with cap = 0 holds the sentinel pointer, through which nothing was read,
\* written or freed.
C14_AllocationMatchesCap ==
    pc # "dropped" =>
        /\ heapBytes # 0 <=> cap # 0
        /\ heapBytes = cap * ElemSize
        /\ Len(mem) = cap
        /\ cap # 0 => (OldNumBytes(cap) = heapBytes /\ DeallocBytes(cap) = heapBytes)
        /\ ptr = "dangling" <=> cap = 0
        /\ ptr = "dangling" =>
               /\ mem = <<>> /\ len = 0 /\ frees = 0
               /\ \A e \in Ids : moved[e] = 0
               /\ lastOp.ret = None

\* a call of insert that returned
InsertDone == pc = "live" /\ lastOp.op = "insert" /\ lastOp.ok

\* C15: an insert(i, x) with 0 <= i <= len that returns leaves the values
\* s[0..i) ++ [x] ++ s[i..len) and a length one higher; it grew first exactly
\* when len = cap; for i = len the values and the capacity are those push(x)
\* gives.  An insert within bounds returns unless grow() refuses the growth.
C15_InsertPlaces ==
    /\ InsertDone =>
           /\ lastOp.idx <= lastOp.len0
           /\ Len(before) = lastOp.len0
           /\ Contents = AbsInsert(before, lastOp.idx, lastOp.elem)
           /\ Contents = abs
           /\ len = lastOp.len0 + 1
           /\ lastOp.grew <=> (lastOp.len0 = lastOp.cap0)
           /\ cap = IF lastOp.grew THEN NewCap(lastOp.cap0) ELSE lastOp.cap0
           /\ lastOp.idx = lastOp.len0 => Contents = Append(before, lastOp.elem)
    /\ (pc = "live" /\ lastOp.op = "insert" /\ lastOp.idx <= lastOp.len0 /\ ~lastOp.ok) =>
           (err = "capacity overflow" /\ lastOp.len0 = lastOp.cap0)

C15_Witness ==
    /\ InsertDone
    /\ lastOp.idx = 1 /\ lastOp.grew
    /\ before = <<1, 2>>
    /\ Contents = <<1, 3, 2>>

C15_WitnessEnd ==
    /\ InsertDone
    /\ lastOp.idx = lastOp.len0
    /\ before = <<1, 2>>
    /\ Contents = <<1, 2, 3>>

\* a call of remove that returned
RemoveDone == pc = "live" /\ lastOp.op = "remove" /\ lastOp.ok

\* C16: a remove(i) with 0 <= i < len returns s[i] and leaves the values
\* s[0..i) ++ s[i+1..len), a length one lower and the capacity as it was; the
\* elements left are those of s without s[i], each once, and s[i] has been
\* moved out once.
C16_RemoveTakes ==
    /\ RemoveDone =>
           /\ lastOp.idx < lastOp.len0
           /\ Len(before) = lastOp.len0
           /\ lastOp.ret = before[lastOp.idx + 1]
           /\ Contents = AbsRemove(before, lastOp.idx)
           /\ Contents = abs
           /\ len = lastOp.len0 - 1
           /\ cap = lastOp.cap0
           /\ Distinct(before) /\ Distinct(Contents)
           /\ Range(Contents) = Range(before) \ {lastOp.ret}
           /\ moved[lastOp.ret] = 1 /\ dropped[lastOp.ret] = 0
           /\ \A e \in Range(Contents) : moved[e] = 0 /\ dropped[e] = 0
    /\ (lastOp.op = "remove" /\ lastOp.idx < lastOp.len0) => lastOp.ok

C16_Witness ==
    /\ RemoveDone
    /\ lastOp.idx = 1 /\ lastOp.ret = 2
    /\ before = <<1, 2, 3, 4>>
    /\ Contents = <<1, 3, 4>>
    /\ cap = 4

\* what C17 says of each state of an iterator
C17_State ==
    /\ owner = "vec" => (start = 0 /\ end = 0 /\ rawOffsets = 0)
    /\ owner = "iter" =>
           /\ 0 <= start /\ start <= end /\ end <= Len(orig)
           /\ rawOffsets = IF Len(orig) = 0 THEN 0 ELSE 1
    /\ lastOp.op = "into_iter" =>
           /\ owner = "iter"
           /\ Len(orig) = lastOp.len0
           /\ start = 0 /\ end = lastOp.len0
           /\ lastOp.len0 = 0 => (start = end /\ rawOffsets = 0)

\* a step in which the iterator yielded an element through `name`
Yields(name) ==
    /\ Len(yielded') = Len(yielded) + 1
    /\ yielded'[Len(yielded')][1] = name

\* what C17 says of each step
C17_Step ==
    /\ (owner = "vec" /\ owner' = "iter") =>
           (start' = 0 /\ end' = len /\ Len(orig') = len)
    /\ Yields("next") => (end' = end - 1 /\ start' = start)
    /\ Yields("next_back") => (start' = start + 1 /\ end' = end)
    /\ (owner = "iter" /\ start = end) =>
           (start' = start /\ end' = end /\ yielded' = yielded)
    /\ (owner = "iter" /\ pc = "live" /\ pc' = "live" /\ start # end) =>
           (Yields("next") \/ Yields("next_back"))
    /\ (owner = "iter" /\ <<start, end>>' # <<start, end>>) =>
           (Yields("next") \/ Yields("next_back"))

\* C17: into_iter on an array of length n sets start to slot 0 and end to
\* slot n (for n = 0 start = end, and no offset is computed); an iterator
\* always has 0 <= start <= end <= n; a successful next() moves only end, down
\* by one; a successful next_back() moves only start, up by one; a call made
\* when start = end changes neither cursor.
C17_CursorsConverge == [](C17_State) /\ [][C17_Step]_vars

C17_Witness ==
    /\ owner = "iter" /\ pc = "live"
    /\ Len(orig) = 3
    /\ start = 1 /\ end = 1
    /\ nNone = 1
    /\ yielded[1][1] = "next" /\ yielded[2][1] = "next_back"

C17_WitnessEmpty ==
    /\ lastOp.op = "into_iter" /\ lastOp.len0 = 0 /\ lastOp.cap0 = 2
    /\ start = end /\ rawOffsets = 0

\* a step in which grow() ran and the allocator satisfied its request
GrowStep == grows' = grows + 1 /\ ~allocFailed'

\* what C18 says of each step: in a call that grows, the slots as grow()
\* leaves them hold the values of [0, len) unchanged, the call goes on from
\* them with the length it had, and no element is moved out or destroyed
C18_Step ==
    GrowStep =>
        /\ lastOp'.op \in {"push", "insert"} /\ lastOp'.grew /\ lastOp'.ok
        /\ cap' = NewCap(cap) /\ cap' # cap
        /\ heapBytes' = NewNumBytes(cap) /\ ptr' = "heap"
        /\ Len(GrowMem(mem, cap)) = cap'
        /\ SubSeq(GrowMem(mem, cap), 1, len) = Contents
        /\ mem' = IF lastOp'.op = "push"
                  THEN Write(GrowMem(mem, cap), len, lastOp'.elem)
                  ELSE Write(InsertShift(GrowMem(mem, cap), lastOp'.idx, len),
                             lastOp'.idx, lastOp'.elem)
        /\ len' = len + 1
        /\ moved' = moved /\ dropped' = dropped
        /\ nextId' = nextId + 1
        /\ <<frees, start, end, owner, pc, err>>' = <<frees, start, end, owner, pc, err>>

\* what C18 says of the state a growing call leaves: the values the array
\* had before the call are all there, in order, around the one new element
C18_State ==
    (pc = "live" /\ lastOp.op \in {"push", "insert"} /\ lastOp.ok /\ lastOp.grew) =>
        /\ len = lastOp.len0 + 1
        /\ Len(mem) = cap /\ cap > lastOp.cap0
        /\ before = AbsRemove(Contents, IF lastOp.op = "push" THEN lastOp.len0 ELSE lastOp.idx)
        /\ \A e \in Range(Contents) : moved[e] = 0 /\ dropped[e] = 0

\* C18: a grow() the allocator satisfies changes the capacity and the
\* allocation only: the length is as it was, slots [0, len) hold the same
\* values, and no element is constructed, moved out or destroyed by it.
C18_GrowFrame == [](C18_State) /\ [][C18_Step]_vars

C18_Witness ==
    /\ pc = "live" /\ lastOp.op = "push" /\ lastOp.ok /\ lastOp.grew
    /\ lastOp.cap0 = 2 /\ cap = 4
    /\ before = <<1, 2>>
    /\ Contents = <<1, 2, 3>>

\* C19: with w-bit words and size_of(T) >= 1, for the capacity of every
\* reachable state the products grow() computes before its assertion
\* (cap * 2 and cap * size_of(T)) are below 2^w, so the wrapping
\* multiplication gives the true product; where the assertion passes,
\* old_num_bytes * 2 is below 2^w too; and every size grow() requests from
\* the allocator, so the size of every allocation, is at most isize::MAX.
C19_NoWrapInGrow ==
    /\ ElemSize >= 1
    /\ cap * 2 < Word /\ Mul(cap, 2) = cap * 2
    /\ cap * ElemSize < Word /\ OldNumBytes(cap) = cap * ElemSize
    /\ (cap # 0 /\ GrowOk(cap)) =>
           /\ OldNumBytes(cap) * 2 < Word
           /\ NewNumBytes(cap) = cap * ElemSize * 2
    /\ GrowOk(cap) => NewNumBytes(cap) <= ISIZE_MAX
    /\ heapBytes <= ISIZE_MAX
    /\ (lastOp.op \in {"push", "insert"} /\ lastOp.ok /\ lastOp.grew /\ pc = "live") =>
           /\ heapBytes = NewNumBytes(lastOp.cap0)
           /\ cap * ElemSize = heapBytes
    /\ err = "capacity overflow" =>
           /\ lastOp.cap0 = cap
           /\ ~GrowOk(cap)
           /\ Mul(cap, 2) = cap * 2

C19_Witness ==
    /\ err = "capacity overflow"
    /\ lastOp.op = "insert"
    /\ cap * 2 > ISIZE_MAX /\ cap * 2 < Word
    /\ heapBytes = cap * ElemSize

\* a step in which a call ends in a panic
PanicStep == err = "none" /\ err' # "none"

\* what C20 says of a panicking step: nothing of the array changes; the one
\* destructor that runs is that of the argument the call was given
C20_Step ==
    PanicStep =>
        /\ len' = len /\ cap' = cap
        /\ ptr' = ptr /\ heapBytes' = heapBytes /\ frees' = frees
        /\ mem' = mem
        /\ Contents' = Contents
        /\ moved' = moved
        /\ \A e \in Ids \ {lastOp'.elem} : dropped'[e] = dropped[e]
        /\ grows' = grows
        /\ err' = "index out of bounds" =>
               /\ lastOp'.op \in {"insert", "remove"}
               /\ lastOp'.idx >= (IF lastOp'.op = "insert" THEN len + 1 ELSE len)
        /\ err' = "capacity overflow" =>
               /\ lastOp'.op \in {"push", "insert"}
               /\ len = cap /\ ~GrowOk(cap)

\* what C20 says of the state a panic leaves
C20_State ==
    (pc = "live" /\ err # "none") =>
        /\ ~lastOp.ok /\ ~lastOp.grew
        /\ len = lastOp.len0
        /\ cap = lastOp.cap0
        /\ heapBytes = cap * ElemSize /\ Len(mem) = cap
        /\ Contents = before
        /\ Contents = abs

\* C20: when insert or remove fails its bounds check, or grow() (called from
\* push or insert) fails its capacity-overflow check, the panic is raised
\* before anything was modified: len, cap, the allocation and the values of
\* slots [0, len) are what they were before the call.
C20_FailBeforeModify == [](C20_State) /\ [][C20_Step]_vars

C20_Witness ==
    /\ pc = "live" /\ err = "index out of bounds"
    /\ lastOp.op = "remove" /\ lastOp.idx = 3
    /\ before = <<1, 2, 3>>
    /\ Contents = <<1, 2, 3>>

C20_WitnessGrow ==
    /\ pc = "live" /\ err = "capacity overflow"
    /\ lastOp.op = "push"
    /\ before = <<1, 2, 3, 4>>
    /\ Contents = <<1, 2, 3, 4>>
    /\ cap = 4

=============================================================================
